---------------------------- MODULE Spec2Model ----------------------------
(***************************************************************************)
(* A model of src/app.py, the Personalized CSV Creator: the value          *)
(* formatter (convert_value, format_number), the line serializer           *)
(* (iter_csv_lines), the background conversion pass (save_csv,             *)
(* perform_conversion and its Tk "after" handoff) and the significant-     *)
(* figures configuration (apply_sig_fig, clear_sig_fig, refresh_preview).  *)
(*                                                                         *)
(* Text is a sequence of one-character strings; Python's None and the      *)
(* empty string are both the empty sequence wherever the code only tests   *)
(* truthiness.                                                             *)
(***************************************************************************)
EXTENDS Integers, Sequences, FiniteSets, TLC

(***************************************************************************)
(* Bounds of the model.                                                    *)
(***************************************************************************)
\* longest field text drawn for the quoting and escaping checks
MaxLen == 3
\* the serializer's tables have up to MaxThousands * 1000 + 999 rows
MaxThousands == 2
\* the user changes the form at most MaxEdits times
MaxEdits == 1
\* the user starts at most MaxPasses conversions
MaxPasses == 2
\* the numbers drawn for format_number have powers of ten from -MaxExponent
\* to MaxExponent
MaxExponent == 10

VARIABLES
    \* one field through format_cells: the inputs, the position, the results
    f_cell, f_mode, f_separator, f_quote, f_pc, f_needs, f_out

fieldVars == <<f_cell, f_mode, f_separator, f_quote, f_pc, f_needs, f_out>>

VARIABLES
    \* one pass of iter_csv_lines driven to its end: the generator, the
    \* settings and precision map it reads, the progress callbacks made so
    \* far, the number of lines yielded and the last of them
    g_gen, g_settings, g_sig_figs, g_calls, g_count, g_last

genVars == <<g_gen, g_settings, g_sig_figs, g_calls, g_count, g_last>>

VARIABLES
    \* the application object (self): Tk variables, widgets' state and fields
    app,
    \* the conversion threads: the running ones and the last one started
    threads,
    \* the callbacks handed to root.after(0, ...), oldest first
    after_queue,
    \* how many form changes and how many conversions the user has made
    edits, passes

appVars == <<app, threads, after_queue, edits, passes>>

VARIABLES
    \* one call of format_number: the value, the precision, the position and
    \* the text returned
    n_value, n_sig_figs, n_pc, n_out

numVars == <<n_value, n_sig_figs, n_pc, n_out>>

(***************************************************************************)
(* Text helpers: Python str operations on character sequences.             *)
(***************************************************************************)
None == <<>>

RECURSIVE SeqsUpTo(_, _)
\* all sequences over alphabet S of length at most n
SeqsUpTo(S, n) ==
    IF n = 0 THEN {<<>>}
    ELSE LET shorter == SeqsUpTo(S, n - 1)
         IN shorter \cup {Append(s, c) : s \in {t \in shorter : Len(t) = n - 1}, c \in S}

\* Python: sub in text
Contains(text, sub) ==
    \E i \in 1..(Len(text) - Len(sub) + 1) :
        SubSeq(text, i, i + Len(sub) - 1) = sub

RECURSIVE Repeat(_, _)
\* Python: s * n
Repeat(s, n) == IF n <= 0 THEN <<>> ELSE s \o Repeat(s, n - 1)

RECURSIVE Replace(_, _, _)
\* Python: text.replace(old, new) for a non-empty old: leftmost,
\* non-overlapping occurrences, scanning left to right
Replace(text, old, new) ==
    IF Len(text) < Len(old) \/ text = <<>> THEN text
    ELSE IF SubSeq(text, 1, Len(old)) = old
         THEN new \o Replace(SubSeq(text, Len(old) + 1, Len(text)), old, new)
         ELSE <<Head(text)>> \o Replace(Tail(text), old, new)

RECURSIVE Join(_, _)
\* Python: sep.join(parts)
Join(parts, sep) ==
    IF parts = <<>> THEN <<>>
    ELSE IF Len(parts) = 1 THEN parts[1]
    ELSE parts[1] \o sep \o Join(Tail(parts), sep)

RECURSIVE RStrip(_, _)
\* Python: text.rstrip(c) for a single character c
RStrip(text, c) ==
    IF text # <<>> /\ text[Len(text)] = c
    THEN RStrip(SubSeq(text, 1, Len(text) - 1), c)
    ELSE text

(***************************************************************************)
(* Module constants of app.py.                                             *)
(***************************************************************************)
DEFAULT_SEPARATOR == <<",">>
DEFAULT_QUOTE == <<"\"">>
LF == "\n"
CR == "\r"

(***************************************************************************)
(* Numbers.  A numeric cell is sign, decimal digits and a power of ten:    *)
(* value = (-1)^neg * digits * 10^exp.  The digits carry no leading zero   *)
(* (zero itself is <<0>>), so values beyond the checker's integer range    *)
(* (1.5e10) are still exact.                                               *)
(***************************************************************************)
DigitChar(d) == <<"0", "1", "2", "3", "4", "5", "6", "7", "8", "9">>[d + 1]

DigitText(ds) == [i \in 1..Len(ds) |-> DigitChar(ds[i])]

RECURSIVE NatDigits(_)
\* the decimal digits of a natural number
NatDigits(n) == IF n < 10 THEN <<n>> ELSE Append(NatDigits(n \div 10), n % 10)

Zeros(n) == [i \in 1..n |-> 0]

IsZeroNumber(num) == \A i \in 1..Len(num.digits) : num.digits[i] = 0

\* the decimal exponent X of d.ddd * 10^X
DecimalExponent(num) == Len(num.digits) - 1 + num.exp

RECURSIVE StripTrailingZeros(_)
\* drop trailing zero digits, keeping at least one digit
StripTrailingZeros(ds) ==
    IF Len(ds) > 1 /\ ds[Len(ds)] = 0
    THEN StripTrailingZeros(SubSeq(ds, 1, Len(ds) - 1))
    ELSE ds

RECURSIVE Increment(_)
\* add one to a digit string; all nines grow by one digit
Increment(ds) ==
    IF ds = <<>> THEN <<1>>
    ELSE IF ds[Len(ds)] < 9
         THEN [ds EXCEPT ![Len(ds)] = @ + 1]
         ELSE Append(Increment(SubSeq(ds, 1, Len(ds) - 1)), 0)

\* rest compared with one half of a unit in the last kept place:
\* -1 below, 0 exactly half, 1 above
HalfCompare(rest) ==
    IF rest = <<>> THEN -1
    ELSE IF rest[1] > 5 THEN 1
    ELSE IF rest[1] < 5 THEN -1
    ELSE IF \E i \in 2..Len(rest) : rest[i] # 0 THEN 1 ELSE 0

\* the value rounded half-to-even to P significant digits:
\* [digits |-> at most P digits, X |-> decimal exponent]
RoundSignificant(num, P) ==
    LET ds == num.digits
        X == DecimalExponent(num)
    IN IF Len(ds) <= P THEN [digits |-> ds, X |-> X]
       ELSE LET kept == SubSeq(ds, 1, P)
                cmp == HalfCompare(SubSeq(ds, P + 1, Len(ds)))
                up == cmp = 1 \/ (cmp = 0 /\ kept[P] % 2 = 1)
                r == IF up THEN Increment(kept) ELSE kept
            IN IF Len(r) > P
               THEN [digits |-> SubSeq(r, 1, P), X |-> X + 1]
               ELSE [digits |-> r, X |-> X]

SignText(num) == IF num.neg /\ ~IsZeroNumber(num) THEN <<"-">> ELSE <<>>

\* the exponent suffix of C's %e and %g and of repr: sign, two digits at least
ExponentText(X) ==
    LET a == IF X < 0 THEN -X ELSE X
        ds == NatDigits(a)
    IN <<"e", IF X < 0 THEN "-" ELSE "+">>
       \o DigitText(IF Len(ds) < 2 THEN <<0>> \o ds ELSE ds)

\* d.ddd with the given significant digits
ScientificText(ds, X) ==
    <<DigitChar(ds[1])>>
    \o (IF Len(ds) > 1 THEN <<".">> \o DigitText(Tail(ds)) ELSE <<>>)
    \o ExponentText(X)

\* positional notation of ds * 10^(X - Len(ds) + 1), no trailing fraction zeros
FixedText(ds, X) ==
    IF X < 0
    THEN <<"0", ".">> \o DigitText(Zeros(-X - 1) \o ds)
    ELSE IF Len(ds) <= X + 1
         THEN DigitText(ds \o Zeros(X + 1 - Len(ds)))
         ELSE DigitText(SubSeq(ds, 1, X + 1)) \o <<".">>
              \o DigitText(SubSeq(ds, X + 2, Len(ds)))

\* Python: format(float(value), ".<P>g") for a finite value; a precision of
\* 0 is taken as 1
FormatG(num, P0) ==
    LET P == IF P0 = 0 THEN 1 ELSE P0
    IN IF IsZeroNumber(num) THEN <<"0">>
       ELSE LET r == RoundSignificant(num, P)
                ds == StripTrailingZeros(r.digits)
            IN SignText(num)
               \o (IF r.X < -4 \/ r.X >= P
                   THEN ScientificText(ds, r.X)
                   ELSE FixedText(ds, r.X))

\* Python: str(value) of an int, and of a float (repr: shortest digits,
\* positional for -4 <= X < 16 with ".0" for an integral value)
NaturalText(num) ==
    IF ~num.is_float
    THEN SignText(num) \o DigitText(num.digits \o Zeros(IF IsZeroNumber(num) THEN 0 ELSE num.exp))
    ELSE IF IsZeroNumber(num) THEN <<"0", ".", "0">>
    ELSE LET ds == StripTrailingZeros(num.digits)
             X == DecimalExponent(num)
         IN SignText(num)
            \o (IF X < -4 \/ X >= 16
                THEN ScientificText(ds, X)
                ELSE LET t == FixedText(ds, X)
                     IN IF Contains(t, <<".">>) THEN t ELSE t \o <<".", "0">>)

\* format_number (lines 602-614).  sig_figs is None (<<>>) or <<n>>; a
\* negative n makes the format specification invalid, format() raises and
\* the except branch returns str(value).
format_number(num, sig_figs) ==
    IF sig_figs = None THEN NaturalText(num)
    ELSE IF sig_figs[1] < 0 THEN NaturalText(num)
    ELSE LET formatted == FormatG(num, sig_figs[1])
         IN IF Contains(formatted, <<".">>)
            THEN LET stripped == RStrip(RStrip(formatted, "0"), ".")
                 IN IF stripped = <<>> THEN <<"0">> ELSE stripped
            ELSE formatted

(***************************************************************************)
(* iter_csv_lines: the closures needs_quote, escape_text, format_cells.    *)
(* The closure variables separator, quoting_mode, quote_char are           *)
(* parameters here.                                                        *)
(***************************************************************************)
\* line 433: separator = self.get_separator() or DEFAULT_SEPARATOR
EffectiveSeparator(resolved) ==
    IF resolved = None THEN DEFAULT_SEPARATOR ELSE resolved

\* lines 435-436: quote_char = configured_quote if configured_quote else '"'
EffectiveQuote(configured) ==
    IF configured = None THEN DEFAULT_QUOTE ELSE configured

\* a plausible slip: "No quoting" taken literally, never quoting
needs_quote_NoneNeverQuotes(text, is_text, quoting_mode, separator, quote_char) ==
    IF quoting_mode = "all" THEN TRUE
    ELSE IF quoting_mode = "text" /\ is_text THEN TRUE
    ELSE IF quoting_mode = "none" THEN FALSE
    ELSE IF separator # <<>> /\ Contains(text, separator) THEN TRUE
    ELSE IF Contains(text, <<LF>>) \/ Contains(text, <<CR>>) THEN TRUE
    ELSE IF quote_char # <<>> /\ Contains(text, quote_char) THEN TRUE
    ELSE FALSE

needs_quote(text, is_text, quoting_mode, separator, quote_char) ==
    IF quoting_mode = "all" THEN TRUE
    ELSE IF quoting_mode = "text" /\ is_text THEN TRUE
    ELSE IF separator # <<>> /\ Contains(text, separator) THEN TRUE
    ELSE IF Contains(text, <<LF>>) \/ Contains(text, <<CR>>) THEN TRUE
    ELSE IF quote_char # <<>> /\ Contains(text, quote_char) THEN TRUE
    ELSE FALSE

\* a plausible slip: the quote character is not doubled
escape_text_NoDoubling(text, quote_char) == text

escape_text(text, quote_char) ==
    Replace(text, quote_char, Repeat(quote_char, 2))

\* one field of format_cells (lines 491-494)
format_field(cell, quoting_mode, separator, quote_char) ==
    IF needs_quote(cell.text, cell.is_text, quoting_mode, separator, quote_char)
    THEN quote_char \o escape_text(cell.text, quote_char) \o quote_char
    ELSE cell.text

format_cells(cells, quoting_mode, separator, quote_char) ==
    Join([i \in 1..Len(cells) |->
             format_field(cells[i], quoting_mode, separator, quote_char)],
         separator)


(***************************************************************************)
(* Settings: get_separator, get_quote_char, validate_settings.             *)
(***************************************************************************)
CUSTOM == "Custom"
TAB_CHOICE == "\\t"

\* lines 301-308; choice is the combobox value, custom the entry's text
get_separator(choice, custom) ==
    IF choice = CUSTOM THEN (IF custom # <<>> THEN custom ELSE None)
    ELSE IF choice = TAB_CHOICE THEN <<"\t">>
    ELSE <<choice>>

\* lines 310-315
get_quote_char(choice, custom) ==
    IF choice = CUSTOM THEN (IF custom # <<>> THEN custom ELSE None)
    ELSE <<choice>>

\* lines 317-333, on the resolved values; "ok" is the True return
validate_settings(separator, quoting_mode, quote_char) ==
    IF separator = None THEN "Invalid separator"
    ELSE IF quoting_mode # "none" /\ quote_char = None THEN "Invalid quote: missing"
    ELSE IF quote_char # None /\ Len(quote_char) # 1 THEN "Invalid quote: not a single character"
    ELSE "ok"

QuotingModes == {"none", "text", "all"}

\* the Tk variables the serializer reads
Settings(separator_var, custom_separator_var, quoting_mode_var, quote_choice_var, custom_quote_var) ==
    [separator_var |-> separator_var, custom_separator_var |-> custom_separator_var,
     quoting_mode_var |-> quoting_mode_var, quote_choice_var |-> quote_choice_var,
     custom_quote_var |-> custom_quote_var]

\* validate_settings on the widget values
SettingsVerdict(settings) ==
    validate_settings(get_separator(settings.separator_var, settings.custom_separator_var),
                      settings.quoting_mode_var,
                      get_quote_char(settings.quote_choice_var, settings.custom_quote_var))

(***************************************************************************)
(* Cell values and convert_value (lines 441-470).  A cell is a record with *)
(* a tag for the Python type the isinstance chain finds, and that type's   *)
(* payload.                                                                *)
(***************************************************************************)
MissingCell == [tag |-> "Missing"]
NumberCell(neg, digits, exp, is_float) ==
    [tag |-> "Number", num |-> [neg |-> neg, digits |-> digits, exp |-> exp, is_float |-> is_float]]
BoolCell(b) == [tag |-> "bool", b |-> b]
TextCell(text) == [tag |-> "str", text |-> text]
\* pd.Timestamp and datetime.datetime: the date as text, the time of day, the
\* UTC offset as text (empty when naive)
TimestampCell(date, hour, minute, second, microsecond, tz) ==
    [tag |-> "Timestamp", date |-> date, hour |-> hour, minute |-> minute,
     second |-> second, microsecond |-> microsecond, tz |-> tz]
DateCell(date) == [tag |-> "date", date |-> date]
TimedeltaCell(text) == [tag |-> "Timedelta", text |-> text]

PadDigits(n, width) ==
    LET ds == NatDigits(n)
    IN DigitText(Zeros(width - Len(ds)) \o ds)

\* datetime.isoformat(): date, "T", HH:MM:SS, the microseconds when not zero,
\* the offset when aware
IsoFormat(ts) ==
    ts.date \o <<"T">>
    \o PadDigits(ts.hour, 2) \o <<":">> \o PadDigits(ts.minute, 2) \o <<":">>
    \o PadDigits(ts.second, 2)
    \o (IF ts.microsecond # 0 THEN <<".">> \o PadDigits(ts.microsecond, 6) ELSE <<>>)
    \o ts.tz

\* self.significant_figures.get(column): None (<<>>) or <<n>>
SigFigGet(significant_figures, column) ==
    IF column \in DOMAIN significant_figures
    THEN <<significant_figures[column]>>
    ELSE None

\* a plausible slip: the missing-value case is left out and the value falls
\* through to the text case of line 469, text-like
convert_value_MissingIsText(value, column, significant_figures) ==
    [text |-> IF "text" \in DOMAIN value THEN value.text ELSE <<>>, is_text |-> TRUE]

convert_value(value, column, significant_figures) ==
    IF value.tag = "Missing" THEN [text |-> <<>>, is_text |-> FALSE]
    ELSE IF value.tag \in {"Timestamp", "datetime"}
    THEN IF value.tz # <<>> THEN [text |-> IsoFormat(value), is_text |-> FALSE]
         ELSE IF value.hour = 0 /\ value.minute = 0 /\ value.second = 0 /\ value.microsecond = 0
              THEN [text |-> value.date, is_text |-> FALSE]
              ELSE [text |-> IsoFormat(value), is_text |-> FALSE]
    ELSE IF value.tag = "date" THEN [text |-> value.date, is_text |-> FALSE]
    ELSE IF value.tag = "Timedelta" THEN [text |-> value.text, is_text |-> FALSE]
    ELSE IF value.tag = "Number"
    THEN [text |-> format_number(value.num, SigFigGet(significant_figures, column)),
          is_text |-> FALSE]
    ELSE IF value.tag = "bool"
    THEN [text |-> IF value.b THEN <<"T", "R", "U", "E">> ELSE <<"F", "A", "L", "S", "E">>,
          is_text |-> FALSE]
    ELSE [text |-> value.text, is_text |-> TRUE]

(***************************************************************************)
(* Tables.  A DataFrame is its columns, a base of rows and a row count;    *)
(* row i is base[((i - 1) % Len(base)) + 1], so that a table of thousands  *)
(* of rows stays a small value.                                            *)
(***************************************************************************)
DataFrame(columns, base, n) == [columns |-> columns, base |-> base, n |-> n]

\* len(df)
DfLen(df) == df.n

\* the i-th tuple of df.itertuples(index=False, name=None), i in 1..len(df)
DfRow(df, i) == df.base[((i - 1) % Len(df.base)) + 1]

(***************************************************************************)
(* iter_csv_lines (lines 427-513) as a generator.  Calling it only makes   *)
(* the generator; its body runs on each next().                            *)
(***************************************************************************)
PROGRESS_INTERVAL == 1000
PREVIEW_ROW_LIMIT == 20

\* the generator object before its first next(); limit is None or <<n>>
iter_csv_lines(df, limit, has_callback) ==
    [pc |-> "created", df |-> df, limit |-> limit, has_callback |-> has_callback,
     separator |-> <<>>, quoting_mode |-> "", quote_char |-> <<>>, idx |-> 0]

\* a plausible slip: the column names are not marked text-like
header_cells_NotTextLike(df) ==
    [i \in 1..Len(df.columns) |-> [text |-> df.columns[i], is_text |-> FALSE]]

\* line 497: header_cells = [(str(col), True) for col in columns]
header_cells(df) == [i \in 1..Len(df.columns) |-> [text |-> df.columns[i], is_text |-> TRUE]]

\* line 507
row_cells(df, idx, significant_figures) ==
    [i \in 1..Len(df.columns) |->
        convert_value(DfRow(df, idx)[i], df.columns[i], significant_figures)]

\* a plausible slip: progress reported whenever a callback is supplied
reports_progress_IgnoresLimit(g) == g.has_callback

\* lines 498, 509, 512: progress is reported only with a callback and no limit
reports_progress(g) == g.has_callback /\ g.limit = None

\* a plausible slip: the limit is not applied to the row source
has_next_row_IgnoresLimit(g) == g.idx < DfLen(g.df)

\* a plausible slip: the loop stops one row early
has_next_row_StopsEarly(g) ==
    /\ g.idx + 1 < DfLen(g.df)
    /\ g.limit # None => g.idx < g.limit[1]

\* lines 502-506: the loop has another row to pull (islice stops after limit
\* rows without pulling one more)
has_next_row(g) ==
    /\ g.idx < DfLen(g.df)
    /\ g.limit # None => g.idx < g.limit[1]

\* the first next(): lines 433-500.  settings are the widget values read now.
gen_first(g, settings) ==
    LET separator == EffectiveSeparator(
                         get_separator(settings.separator_var, settings.custom_separator_var))
        quoting_mode == settings.quoting_mode_var
        quote_char == EffectiveQuote(
                         get_quote_char(settings.quote_choice_var, settings.custom_quote_var))
    IN [gen |-> [g EXCEPT !.pc = "header", !.separator = separator,
                          !.quoting_mode = quoting_mode, !.quote_char = quote_char],
        calls |-> IF reports_progress(g) THEN <<<<0, DfLen(g.df)>>>> ELSE <<>>,
        yielded |-> <<format_cells(header_cells(g.df), quoting_mode, separator, quote_char)>>]

\* a plausible slip: the row is reported before it is yielded
gen_resume_ReportsBeforeYield(g, significant_figures) ==
    LET before_row == IF reports_progress(g) /\ (g.idx + 1) % PROGRESS_INTERVAL = 0
                      THEN <<<<g.idx + 1, DfLen(g.df)>>>>
                      ELSE <<>>
    IN IF has_next_row(g)
       THEN [gen |-> [g EXCEPT !.pc = "row", !.idx = g.idx + 1],
             calls |-> before_row,
             yielded |-> <<format_cells(row_cells(g.df, g.idx + 1, significant_figures),
                                        g.quoting_mode, g.separator, g.quote_char)>>]
       ELSE [gen |-> [g EXCEPT !.pc = "finished"],
             calls |-> IF reports_progress(g) THEN <<<<DfLen(g.df), DfLen(g.df)>>>> ELSE <<>>,
             yielded |-> <<>>]

\* a later next(): the generator resumes after its last yield (line 500 or
\* 508), reports the row just yielded when it is a multiple of 1000, and
\* either yields the next row or leaves the loop, reports (total, total) and
\* ends (yielded is empty: StopIteration).
gen_resume(g, significant_figures) ==
    LET after_row == IF g.pc = "row" /\ reports_progress(g) /\ g.idx % PROGRESS_INTERVAL = 0
                     THEN <<<<g.idx, DfLen(g.df)>>>>
                     ELSE <<>>
    IN IF has_next_row(g)
       THEN [gen |-> [g EXCEPT !.pc = "row", !.idx = g.idx + 1],
             calls |-> after_row,
             yielded |-> <<format_cells(row_cells(g.df, g.idx + 1, significant_figures),
                                        g.quoting_mode, g.separator, g.quote_char)>>]
       ELSE [gen |-> [g EXCEPT !.pc = "finished"],
             calls |-> after_row \o (IF reports_progress(g)
                                     THEN <<<<DfLen(g.df), DfLen(g.df)>>>>
                                     ELSE <<>>),
             yielded |-> <<>>]

\* next(generator)
gen_next(g, settings, significant_figures) ==
    IF g.pc = "created" THEN gen_first(g, settings)
    ELSE gen_resume(g, significant_figures)

(***************************************************************************)
(* The workbook the user converts, and pd.read_excel.                      *)
(***************************************************************************)
ColA == <<"A">>
ColB == <<"B">>
ColC == <<"C">>

SheetNames == <<"Sheet1", "Sheet2">>

Sheet1 ==
    DataFrame(<<ColA, ColB>>,
              << <<NumberCell(FALSE, <<1, 2, 3, 4, 5>>, -1, TRUE), TextCell(<<"x", ",", "y">>)>>,
                 <<NumberCell(FALSE, <<2, 5>>, -1, TRUE), MissingCell>> >>,
              2)

Sheet2 ==
    DataFrame(<<ColB, ColC>>,
              << <<NumberCell(FALSE, <<1, 5>>, 0, FALSE), TextCell(<<"q", ";">>)>> >>,
              1)

\* pd.read_excel(path, sheet_name=..., nrows=...); nrows is None or <<n>>
read_excel(sheet_name, nrows) ==
    LET df == IF sheet_name = "Sheet1" THEN Sheet1 ELSE Sheet2
    IN IF nrows # None /\ nrows[1] < df.n
       THEN DataFrame(df.columns, df.base, nrows[1])
       ELSE df

(***************************************************************************)
(* The application object and its foreground handlers.  A handler is a     *)
(* function from the application's state to its state after the handler.   *)
(* A messagebox is modal: the handler goes on when the user has dismissed  *)
(* it, and it leaves no state behind.                                      *)
(***************************************************************************)
Status(label, p, t) == [label |-> label, p |-> p, t |-> t]

SigFigMap(keys, value) == [c \in keys |-> value]

\* the widget values iter_csv_lines and validate_settings read
SettingsOf(a) ==
    Settings(a.separator_var, a.custom_separator_var, a.quoting_mode_var,
             a.quote_choice_var, a.custom_quote_var)

RECURSIVE drain(_, _, _)
\* list(generator): every line the generator yields until it ends
drain(g, settings, significant_figures) ==
    IF g.pc = "finished" THEN <<>>
    ELSE LET r == gen_next(g, settings, significant_figures)
         IN r.yielded \o drain(r.gen, settings, significant_figures)

\* lines 353-359
display_preview(a, df) ==
    [a EXCEPT !.preview_text =
        drain(iter_csv_lines(df, <<PREVIEW_ROW_LIMIT>>, FALSE), SettingsOf(a),
              a.significant_figures)]

IndexOf(seq, x) == CHOOSE i \in 1..Len(seq) : seq[i] = x

InSeq(seq, x) == \E i \in 1..Len(seq) : seq[i] = x

\* a plausible slip: stale entries are kept
update_column_list_KeepsStale(a, columns) ==
    LET selected_in == a.selection # 0 /\ InSeq(columns, a.listbox[a.selection])
    IN [a EXCEPT !.listbox = columns,
                 !.selection = IF selected_in THEN IndexOf(columns, a.listbox[a.selection]) ELSE 0]

\* lines 532-552
update_column_list(a, columns) ==
    LET selected_in == a.selection # 0 /\ InSeq(columns, a.listbox[a.selection])
    IN [a EXCEPT !.listbox = columns,
                 !.significant_figures =
                     [k \in {c \in DOMAIN a.significant_figures : InSeq(columns, c)} |->
                         a.significant_figures[k]],
                 !.selection = IF selected_in THEN IndexOf(columns, a.listbox[a.selection]) ELSE 0]

\* lines 337-351; read_ok is whether pd.read_excel returns or raises
refresh_preview(a, read_ok) ==
    IF ~a.excel_path THEN a
    ELSE IF SettingsVerdict(SettingsOf(a)) # "ok" THEN a
    ELSE IF ~read_ok
         THEN [a EXCEPT !.status_var = Status("Preview failed", 0, 0)]
         ELSE LET df == read_excel(a.sheet_var, <<PREVIEW_ROW_LIMIT>>)
              IN display_preview(update_column_list(a, df.columns), df)

\* lines 248-259 and load_excel_file (lines 261-271) for the workbook
browse_file(a, read_ok) ==
    refresh_preview([a EXCEPT !.sheet_var = SheetNames[1],
                              !.excel_path = TRUE,
                              !.status_var = Status("Loaded", 0, 0)],
                    read_ok)

IsSpace(c) == c \in {" ", "\t", LF, CR}

RECURSIVE LStrip(_)
LStrip(text) == IF text # <<>> /\ IsSpace(Head(text)) THEN LStrip(Tail(text)) ELSE text

RECURSIVE RStripSpace(_)
RStripSpace(text) ==
    IF text # <<>> /\ IsSpace(text[Len(text)])
    THEN RStripSpace(SubSeq(text, 1, Len(text) - 1))
    ELSE text

\* Python: text.strip()
Strip(text) == RStripSpace(LStrip(text))

DigitValue(c) ==
    CASE c = "0" -> 0 [] c = "1" -> 1 [] c = "2" -> 2 [] c = "3" -> 3 [] c = "4" -> 4
      [] c = "5" -> 5 [] c = "6" -> 6 [] c = "7" -> 7 [] c = "8" -> 8 [] c = "9" -> 9
      [] OTHER -> -1

RECURSIVE DigitsValue(_)
DigitsValue(text) ==
    IF text = <<>> THEN 0
    ELSE 10 * DigitsValue(SubSeq(text, 1, Len(text) - 1)) + DigitValue(text[Len(text)])

\* Python: int(text) of stripped text: an optional sign and decimal digits;
\* <<n>>, or None for ValueError
ParseInt(text) ==
    LET signed == text # <<>> /\ Head(text) \in {"+", "-"}
        body == IF signed THEN Tail(text) ELSE text
    IN IF body = <<>> \/ \E i \in 1..Len(body) : DigitValue(body[i]) < 0
       THEN None
       ELSE <<(IF signed /\ Head(text) = "-" THEN -1 ELSE 1) * DigitsValue(body)>>

\* a plausible slip: the check for a positive value is missing
apply_sig_fig_NoRangeCheck(a, entry, read_ok) ==
    IF a.selection = 0 THEN a
    ELSE LET value == Strip(entry)
             parsed == ParseInt(value)
         IN IF value = <<>> THEN a
            ELSE IF parsed = None THEN a
            ELSE refresh_preview(
                     [a EXCEPT !.significant_figures =
                         [k \in DOMAIN a.significant_figures \cup {a.listbox[a.selection]} |->
                             IF k = a.listbox[a.selection] THEN parsed[1]
                             ELSE a.significant_figures[k]]],
                     read_ok)

\* lines 568-587; entry is the text of the significant-figures entry
apply_sig_fig(a, entry, read_ok) ==
    IF a.selection = 0 THEN a
    ELSE LET value == Strip(entry)
             parsed == ParseInt(value)
         IN IF value = <<>> THEN a
            ELSE IF parsed = None \/ parsed[1] <= 0 THEN a
            ELSE refresh_preview(
                     [a EXCEPT !.significant_figures =
                         [k \in DOMAIN a.significant_figures \cup {a.listbox[a.selection]} |->
                             IF k = a.listbox[a.selection] THEN parsed[1]
                             ELSE a.significant_figures[k]]],
                     read_ok)

\* lines 589-599
clear_sig_fig(a, read_ok) ==
    IF a.selection = 0 THEN a
    ELSE refresh_preview(
             [a EXCEPT !.significant_figures =
                 [k \in DOMAIN a.significant_figures \ {a.listbox[a.selection]} |->
                     a.significant_figures[k]]],
             read_ok)

(***************************************************************************)
(* Starting a conversion (save_csv) and the foreground's callbacks.        *)
(***************************************************************************)
OsLinesep == <<LF>>

\* lines 399-400: LINE_ENDING_OPTIONS and the os.linesep default
Newline(line_ending) ==
    IF line_ending = "Unix (\\n)" THEN <<LF>>
    ELSE IF line_ending = "Windows (\\r\\n)" THEN <<CR, LF>>
    ELSE OsLinesep

\* a plausible slip: the Save button stays enabled while the thread runs
start_conversion_LeavesSaveEnabled(a) ==
    [a EXCEPT !.status_var = Status("Converting", 0, 0)]

\* lines 381-382
start_conversion(a) ==
    [a EXCEPT !.save_button = "disabled", !.status_var = Status("Converting", 0, 0)]

\* the Thread object of lines 384-389 before it runs; the last two fields
\* record what was in force when save_csv started it
NewThread(id, a) ==
    [id |-> id, pc |-> "start", df |-> DataFrame(<<>>, <<>>, 0), total_rows |-> 0,
     newline |-> <<>>, gen |-> iter_csv_lines(DataFrame(<<>>, <<>>, 0), None, TRUE),
     line |-> <<>>, output |-> <<>>, yielded |-> <<>>, writes |-> 0,
     failed |-> FALSE, exc_bound |-> FALSE, handled |-> FALSE,
     resolved |-> [separator |-> <<>>, quoting_mode |-> "", quote_char |-> <<>>],
     snapshot |-> [settings |-> SettingsOf(a), significant_figures |-> a.significant_figures]]

\* lines 415-418
on_conversion_success(a) ==
    [a EXCEPT !.status_var = Status("Saved", 0, 0),
              !.save_button = "normal"]

\* lines 420-423
on_conversion_error(a) ==
    [a EXCEPT !.status_var = Status("Conversion failed", 0, 0),
              !.save_button = "normal"]

Callback(kind, id, p, t) == [kind |-> kind, id |-> id, p |-> p, t |-> t]

HasPending(queue, id) == \E i \in 1..Len(queue) : queue[i].id = id

\* the threads that still matter: a thread whose handler has run and that
\* has no callback waiting has ended, or has only the end of its except
\* block left, which nothing observes; it is gone
collect(ts, queue) ==
    LET kept(t) == ~(t.pc \in {"dead", "except_exit"} /\ t.handled /\ ~HasPending(queue, t.id))
    IN SelectSeq(ts, kept)

(***************************************************************************)
(* perform_conversion (lines 392-413), one step of the thread at a time.   *)
(* Each step gives the thread after it and the callbacks it hands to       *)
(* root.after.                                                             *)
(***************************************************************************)
Step(thread, posts) == [thread |-> thread, posts |-> posts]

\* lines 394-405: read the table and the output options, make the generator
worker_read(t, a) ==
    LET df == read_excel(a.sheet_var, None)
    IN Step([t EXCEPT !.pc = "open", !.df = df, !.total_rows = DfLen(df),
                      !.newline = Newline(a.line_ending_var),
                      !.gen = iter_csv_lines(df, None, TRUE)],
            <<>>)

\* line 406: open the output for writing
worker_open(t) == Step([t EXCEPT !.pc = "pull", !.output = <<>>], <<>>)

\* lines 402-403: progress_callback hands a status update to the foreground
progress_posts(t, calls) ==
    [i \in 1..Len(calls) |-> Callback("progress", t.id, calls[i][1], calls[i][2])]

\* line 407: next(lines_iter); at the generator's end, lines 410-411
worker_pull(t, a) ==
    LET r == gen_next(t.gen, SettingsOf(a), a.significant_figures)
        first == t.gen.pc = "created"
        t1 == [t EXCEPT !.gen = r.gen,
                        !.resolved =
                            IF first
                            THEN [separator |-> get_separator(a.separator_var, a.custom_separator_var),
                                  quoting_mode |-> a.quoting_mode_var,
                                  quote_char |-> get_quote_char(a.quote_choice_var, a.custom_quote_var)]
                            ELSE t.resolved]
    IN IF r.yielded # <<>>
       THEN Step([t1 EXCEPT !.pc = "write_line", !.line = r.yielded[1],
                            !.yielded = Append(t.yielded, r.yielded[1])],
                 progress_posts(t, r.calls))
       ELSE Step([t1 EXCEPT !.pc = "dead"],
                 progress_posts(t, r.calls)
                 \o <<Callback("final_status", t.id, t.total_rows, t.total_rows),
                      Callback("success", t.id, 0, 0)>>)

\* line 408
worker_write_line(t) ==
    Step([t EXCEPT !.pc = "write_newline", !.output = Append(t.output, t.line),
                   !.writes = t.writes + 1],
         <<>>)

\* a plausible slip: the terminator is not written
worker_write_newline_Omitted(t) == Step([t EXCEPT !.pc = "pull"], <<>>)

\* line 409
worker_write_newline(t) ==
    Step([t EXCEPT !.pc = "pull", !.output = Append(t.output, t.newline),
                   !.writes = t.writes + 1],
         <<>>)

\* lines 412-413: an exception anywhere in the try block; the handler's
\* lambda refers to exc, which is bound while the except block runs
worker_raise(t) ==
    Step([t EXCEPT !.pc = "except_exit", !.failed = TRUE, !.exc_bound = TRUE],
         <<Callback("error", t.id, 0, 0)>>)

\* the end of the except block: Python unbinds exc
worker_leave_except(t) ==
    Step([t EXCEPT !.pc = "dead", !.exc_bound = FALSE], <<>>)

(***************************************************************************)
(* One field through the serializer: the specification SpecField draws a   *)
(* field text, its text-like flag and a valid configuration, and applies   *)
(* needs_quote and format_cells to it.                                     *)
(***************************************************************************)
FieldAlphabet == {"a", ",", "\"", "'", LF, CR}
FieldSeparators == {<<",">>, <<",", ",">>, <<"'">>}
FieldQuotes == {None, <<"\"">>, <<"'">>}

FieldInit ==
    /\ f_cell \in [text : SeqsUpTo(FieldAlphabet, MaxLen), is_text : BOOLEAN]
    /\ f_mode \in QuotingModes
    /\ f_separator \in FieldSeparators
    /\ f_quote \in FieldQuotes
    /\ validate_settings(f_separator, f_mode, f_quote) = "ok"
    /\ f_pc = "input"
    /\ f_needs = FALSE
    /\ f_out = <<>>

\* needs_quote and format_cells on the one field, with the closure variables
\* of lines 433-436
QuoteField ==
    /\ f_pc = "input"
    /\ LET separator == EffectiveSeparator(f_separator)
           quote_char == EffectiveQuote(f_quote)
       IN /\ f_needs' = needs_quote(f_cell.text, f_cell.is_text, f_mode, separator, quote_char)
          /\ f_out' = format_cells(<<f_cell>>, f_mode, separator, quote_char)
    /\ f_pc' = "done"
    /\ UNCHANGED <<f_cell, f_mode, f_separator, f_quote>>

\* the field variables when another specification runs
FieldParked ==
    /\ f_cell = [text |-> <<>>, is_text |-> FALSE]
    /\ f_mode = "none"
    /\ f_separator = <<>>
    /\ f_quote = <<>>
    /\ f_pc = "parked"
    /\ f_needs = FALSE
    /\ f_out = <<>>

(***************************************************************************)
(* Claims about one field.                                                 *)
(***************************************************************************)
HasChar(text, c) == \E i \in 1..Len(text) : text[i] = c

\* the field's raw text contains the separator, a line break or the quote
\* character
StructurallyNecessary(text, separator, quote_char) ==
    \/ \E i \in 1..Len(text) : \E j \in i..Len(text) : SubSeq(text, i, j) = separator
    \/ HasChar(text, LF)
    \/ HasChar(text, CR)
    \/ HasChar(text, quote_char[1])

RECURSIVE DoubleEach(_, _)
\* text with every occurrence of the character q doubled
DoubleEach(text, q) ==
    IF text = <<>> THEN <<>>
    ELSE (IF Head(text) = q THEN <<q, q>> ELSE <<Head(text)>>) \o DoubleEach(Tail(text), q)

RECURSIVE Undouble(_, _)
\* each doubled q replaced by a single one, left to right
Undouble(text, q) ==
    IF text = <<>> THEN <<>>
    ELSE IF Len(text) >= 2 /\ text[1] = q /\ text[2] = q
         THEN <<q>> \o Undouble(SubSeq(text, 3, Len(text)), q)
         ELSE <<Head(text)>> \o Undouble(Tail(text), q)

\* strip the outer quotes, then reverse the doubling
Unescape(field, q) == Undouble(SubSeq(field, 2, Len(field) - 1), q)

\* C7: under QuoteAll a field is always quoted; under QuoteText it is quoted
\* iff it is text-like or its raw text contains the separator, a line break
\* or the quote character; under None iff its raw text contains one of those.
C7_QuotingDecision ==
    f_pc = "done" =>
        LET structural == StructurallyNecessary(f_cell.text, EffectiveSeparator(f_separator),
                                                EffectiveQuote(f_quote))
        IN /\ f_mode = "all" => f_needs
           /\ f_mode = "text" => (f_needs <=> (f_cell.is_text \/ structural))
           /\ f_mode = "none" => (f_needs <=> structural)

\* a field that is not text-like is quoted under None because it contains the
\* separator
C7_Witness ==
    /\ f_pc = "done"
    /\ f_mode = "none"
    /\ ~f_cell.is_text
    /\ Contains(f_cell.text, EffectiveSeparator(f_separator))
    /\ f_needs

\* C8: a field whose text contains the separator, a line break or the quote
\* character is emitted as the quote character, the text with every quote
\* character doubled, the quote character; un-escaping it gives the text back.
\* A field that is not quoted is emitted as its text.
C8_EscapeRoundTrip ==
    f_pc = "done" =>
        LET q == EffectiveQuote(f_quote)[1]
            structural == StructurallyNecessary(f_cell.text, EffectiveSeparator(f_separator),
                                                EffectiveQuote(f_quote))
        IN /\ structural =>
                /\ f_out = <<q>> \o DoubleEach(f_cell.text, q) \o <<q>>
                /\ Unescape(f_out, q) = f_cell.text
           /\ ~f_needs => f_out = f_cell.text

\* a text holding the quote character twice and something else was escaped
C8_Witness ==
    /\ f_pc = "done"
    /\ Len(f_cell.text) = 3
    /\ Cardinality({i \in 1..3 : f_cell.text[i] = EffectiveQuote(f_quote)[1]}) = 2
    /\ Len(f_out) = 7

(***************************************************************************)
(* One pass of the serializer: the specification SpecGen draws a table, a  *)
(* limit, whether a progress callback is supplied and a valid              *)
(* configuration, and pulls the generator until it ends.                   *)
(***************************************************************************)
GenColumns == <<<<"A">>, <<"B">>>>

GenBase ==
    << <<NumberCell(FALSE, <<1, 2, 3, 4, 5>>, -1, TRUE), TextCell(<<"x", ",", "y">>)>>,
       <<MissingCell, TextCell(<<"q", "\"">>)>>,
       <<NumberCell(FALSE, <<4, 2>>, 0, FALSE), BoolCell(TRUE)>> >>

GenRemainders == {0, 1, 19, 20, 21, 999}

GenRowCounts == {k * 1000 + d : k \in 0..MaxThousands, d \in GenRemainders}

GenTables == {DataFrame(GenColumns, GenBase, n) : n \in GenRowCounts}

GenSettings ==
    {Settings(",", <<>>, "text", "\"", <<>>),
     Settings(CUSTOM, <<";", ";">>, "none", CUSTOM, <<>>)}

\* column names that hold the separator, a quote character or a line break
HeaderColumnSets == {<<ColA, <<"b", ",", "\"">>>>, <<<<"c", LF>>, ColB>>}

\* short tables under those names
HeaderTables == {DataFrame(columns, GenBase, n) : columns \in HeaderColumnSets, n \in 0..1}

\* every quoting mode, with two separators and quote characters
HeaderSettings ==
    {Settings(",", <<>>, mode, "\"", <<>>) : mode \in QuotingModes}
    \cup {Settings(CUSTOM, <<";">>, mode, "'", <<>>) : mode \in QuotingModes}

\* the table and the settings of a pass
GenCases == (GenTables \X GenSettings) \cup (HeaderTables \X HeaderSettings)

\* limit: unset (a full pass), the preview's limit, and the smallest limits
GenLimits == {None, <<0>>, <<1>>, <<PREVIEW_ROW_LIMIT>>}

GenInit ==
    /\ \E case \in GenCases, limit \in GenLimits, has_callback \in BOOLEAN :
           /\ g_gen = iter_csv_lines(case[1], limit, has_callback)
           /\ g_settings = case[2]
    /\ SettingsVerdict(g_settings) = "ok"
    /\ g_sig_figs = (<<"A">> :> 2)
    /\ g_calls = <<>>
    /\ g_count = 0
    /\ g_last = <<>>

\* the consumer's for loop: one next() on the generator
GenPull ==
    /\ g_gen.pc # "finished"
    /\ LET r == gen_next(g_gen, g_settings, g_sig_figs)
       IN /\ g_gen' = r.gen
          /\ g_calls' = g_calls \o r.calls
          /\ g_count' = g_count + Len(r.yielded)
          /\ g_last' = IF r.yielded # <<>> THEN r.yielded[1] ELSE g_last
    /\ UNCHANGED <<g_settings, g_sig_figs>>

\* the pass variables when another specification runs
GenParked ==
    /\ g_gen = [pc |-> "finished"]
    /\ g_settings = <<>>
    /\ g_sig_figs = <<>>
    /\ g_calls = <<>>
    /\ g_count = 0
    /\ g_last = <<>>


(***************************************************************************)
(* Claims about one pass.                                                  *)
(***************************************************************************)
\* (0,total), then (1000*k,total) for k = 1..floor(total/1000), then (total,total)
ExpectedCalls(total) ==
    <<<<0, total>>>>
    \o [k \in 1..(total \div 1000) |-> <<1000 * k, total>>]
    \o <<<<total, total>>>>

\* C5: a fully consumed unbounded pass with a callback makes exactly the calls
\* (0,total), (1000*k,total) for k = 1..floor(total/1000) in increasing order,
\* (total,total); a pass with a limit never invokes the callback.
C5_ProgressProtocol ==
    /\ (g_gen.pc = "finished" /\ g_gen.limit = None /\ g_gen.has_callback)
           => g_calls = ExpectedCalls(DfLen(g_gen.df))
    /\ g_gen.limit # None => g_calls = <<>>

\* a pass over 2001 rows ended after the calls at 0, 1000, 2000 and 2001
C5_Witness ==
    /\ g_gen.pc = "finished"
    /\ g_gen.limit = None
    /\ g_gen.has_callback
    /\ DfLen(g_gen.df) = 2001
    /\ Len(g_calls) = 4
    /\ g_calls[3] = <<2000, 2001>>

\* the k-th line of the pass over df: the header, then the rows in order
ExpectedLine(df, k, settings, significant_figures) ==
    LET separator == EffectiveSeparator(
                         get_separator(settings.separator_var, settings.custom_separator_var))
        quote_char == EffectiveQuote(
                         get_quote_char(settings.quote_choice_var, settings.custom_quote_var))
        cells == IF k = 1
                 THEN [i \in 1..Len(df.columns) |-> [text |-> df.columns[i], is_text |-> TRUE]]
                 ELSE [i \in 1..Len(df.columns) |->
                          convert_value(DfRow(df, k - 1)[i], df.columns[i], significant_figures)]
    IN format_cells(cells, settings.quoting_mode_var, separator, quote_char)

\* C6: a fully consumed unbounded pass yields rowCount + 1 lines, the header
\* and then one line per row in row order, also when rowCount = 0.
C6_LineCount ==
    g_gen.limit = None =>
        /\ g_count >= 1 => g_last = ExpectedLine(g_gen.df, g_count, g_settings, g_sig_figs)
        /\ g_count <= DfLen(g_gen.df) + 1
        /\ g_gen.pc = "finished" => g_count = DfLen(g_gen.df) + 1

\* the pass over a table without rows ended with the header alone
C6_Witness ==
    /\ g_gen.pc = "finished"
    /\ g_gen.limit = None
    /\ DfLen(g_gen.df) = 0
    /\ g_count = 1
    /\ g_last # <<>>

(***************************************************************************)
(* The application: the user's actions on the form, the conversion         *)
(* threads and the Tk event loop running the callbacks handed to it.  The  *)
(* preview's read of the workbook succeeds in the handlers of a form       *)
(* change; the Refresh Preview button also shows it failing.               *)
(***************************************************************************)
SeparatorChoices == {",", TAB_CHOICE, CUSTOM}
CustomSeparatorTexts == {<<>>, <<";">>}
QuoteChoices == {"\"", "'", CUSTOM}
CustomQuoteTexts == {<<>>, <<"#">>, <<"#", "#">>}
LineEndingChoices == {"Auto (OS default)", "Unix (\\n)", "Windows (\\r\\n)"}
EntryTexts ==
    {<<>>, <<" ">>, <<"3">>, <<" ", "1", " ">>, <<"0">>, <<"-", "2">>, <<"2", ".", "5">>, <<"x">>}

\* AppConfig (lines 40-53) as load_config (lines 85-93) returns it: whatever
\* the preference file holds, unchecked; has_file is whether last_file names
\* a workbook that exists
AppConfig(has_file, separator_choice, custom_separator, quoting_mode, quote_choice, custom_quote, significant_figures) ==
    [has_file |-> has_file, separator_choice |-> separator_choice,
     custom_separator |-> custom_separator, quoting_mode |-> quoting_mode,
     quote_choice |-> quote_choice, custom_quote |-> custom_quote,
     significant_figures |-> significant_figures]

PersistedConfigs ==
    {AppConfig(FALSE, ",", <<>>, "text", "\"", <<>>, SigFigMap({}, 0)),
     AppConfig(TRUE, ",", <<>>, "text", "\"", <<>>, SigFigMap({}, 0)),
     AppConfig(TRUE, ",", <<>>, "text", "\"", <<>>, SigFigMap({ColA}, 0)),
     AppConfig(TRUE, ",", <<>>, "text", "\"", <<>>, SigFigMap({ColA, ColC}, 2)),
     AppConfig(TRUE, CUSTOM, <<";">>, "all", CUSTOM, <<"#">>, SigFigMap({}, 0))}

\* __init__ (lines 59-81) and create_widgets.  With a workbook,
\* create_widgets' refresh (line 244) runs before any sheet is chosen and
\* fails, so the column list stays empty and the map is as persisted;
\* load_excel_file then chooses the first sheet.
InitialApp(config) ==
    [separator_var |-> config.separator_choice,
     custom_separator_var |-> config.custom_separator,
     quoting_mode_var |-> config.quoting_mode,
     quote_choice_var |-> config.quote_choice,
     custom_quote_var |-> config.custom_quote,
     line_ending_var |-> "Auto (OS default)",
     sheet_var |-> IF config.has_file THEN SheetNames[1] ELSE "",
     excel_path |-> config.has_file,
     significant_figures |-> config.significant_figures,
     listbox |-> <<>>, selection |-> 0, preview_text |-> <<>>,
     save_button |-> "normal",
     status_var |-> IF config.has_file THEN Status("Loaded", 0, 0) ELSE Status("Ready", 0, 0)]

AppInit ==
    /\ \E config \in PersistedConfigs : app = InitialApp(config)
    /\ threads = <<>>
    /\ after_queue = <<>>
    /\ edits = 0
    /\ passes = 0

\* a change of the form: the handler's result, one more edit
Edit(a) ==
    /\ edits < MaxEdits
    /\ app' = a
    /\ edits' = edits + 1
    /\ UNCHANGED <<threads, after_queue, passes, fieldVars, genVars, numVars>>

\* on_separator_change (lines 280-282)
ChangeSeparator ==
    \E choice \in SeparatorChoices :
        Edit(refresh_preview([app EXCEPT !.separator_var = choice], TRUE))

\* a key released in the custom separator entry (line 170), enabled only for
\* the Custom choice (lines 284-288)
TypeCustomSeparator ==
    /\ app.separator_var = CUSTOM
    /\ \E text \in CustomSeparatorTexts :
           Edit(refresh_preview([app EXCEPT !.custom_separator_var = text], TRUE))

\* the quoting radio buttons (lines 177-179)
ChangeQuotingMode ==
    \E mode \in QuotingModes :
        Edit(refresh_preview([app EXCEPT !.quoting_mode_var = mode], TRUE))

\* on_quote_change (lines 291-293)
ChangeQuote ==
    \E choice \in QuoteChoices :
        Edit(refresh_preview([app EXCEPT !.quote_choice_var = choice], TRUE))

\* a key released in the custom quote entry (line 196)
TypeCustomQuote ==
    /\ app.quote_choice_var = CUSTOM
    /\ \E text \in CustomQuoteTexts :
           Edit(refresh_preview([app EXCEPT !.custom_quote_var = text], TRUE))

\* the line-ending combobox (line 210): no handler is bound
ChangeLineEnding ==
    \E choice \in LineEndingChoices : Edit([app EXCEPT !.line_ending_var = choice])

\* the sheet combobox (line 126)
SelectSheet ==
    /\ app.excel_path
    /\ \E i \in 1..Len(SheetNames) :
           Edit(refresh_preview([app EXCEPT !.sheet_var = SheetNames[i]], TRUE))

BrowseFile == Edit(browse_file(app, TRUE))

\* a click in the column list; on_column_select (lines 554-566) only shows
\* the column's setting
on_column_select(a, i) == [a EXCEPT !.selection = i]

SelectColumn == \E i \in 1..Len(app.listbox) : Edit(on_column_select(app, i))

\* the user picks a column (or leaves the selection), types into the entry
\* and presses Apply
ApplySigFig ==
    \E i \in 0..Len(app.listbox), entry \in EntryTexts :
        Edit(apply_sig_fig(IF i = 0 THEN app ELSE on_column_select(app, i), entry, TRUE))

\* the user picks a column (or leaves the selection) and presses Clear
ClearSigFig ==
    \E i \in 0..Len(app.listbox) :
        Edit(clear_sig_fig(IF i = 0 THEN app ELSE on_column_select(app, i), TRUE))

\* the Refresh Preview button (line 232)
RefreshPreview ==
    /\ \E read_ok \in BOOLEAN : app' = refresh_preview(app, read_ok)
    /\ UNCHANGED <<threads, after_queue, edits, passes, fieldVars, genVars, numVars>>

\* save_csv (lines 363-390), run by Tk only while the button is enabled;
\* chosen is whether the file dialog returned a name.
SaveCsv ==
    /\ app.save_button = "normal"
    /\ passes < MaxPasses
    /\ \E chosen \in BOOLEAN :
        LET verdict == SettingsVerdict(SettingsOf(app))
        IN IF ~app.excel_path
           THEN UNCHANGED <<app, threads, passes>>
           ELSE IF verdict # "ok"
           THEN UNCHANGED <<app, threads, passes>>
           ELSE IF ~chosen
           THEN UNCHANGED <<app, threads, passes>>
           ELSE /\ app' = start_conversion(app)
                /\ threads' = Append(threads, NewThread(passes + 1, app))
                /\ passes' = passes + 1
    /\ UNCHANGED <<after_queue, edits, fieldVars, genVars, numVars>>

\* a plausible slip: the thread sets the status itself instead of handing
\* the update to the event loop
WorkerStep_SetsStatusItself(i, step) ==
    /\ threads' = collect([threads EXCEPT ![i] = step.thread], after_queue)
    /\ after_queue' = after_queue
    /\ app' = IF step.posts = <<>>
              THEN app
              ELSE [app EXCEPT !.status_var =
                        Status("Converting rows", step.posts[1].p, step.posts[1].t)]
    /\ UNCHANGED <<edits, passes, fieldVars, genVars, numVars>>

\* one step of thread i
WorkerStep(i, step) ==
    /\ threads' = collect([threads EXCEPT ![i] = step.thread], after_queue \o step.posts)
    /\ after_queue' = after_queue \o step.posts
    /\ UNCHANGED <<app, edits, passes, fieldVars, genVars, numVars>>

WorkerRead ==
    \E i \in 1..Len(threads) :
        threads[i].pc = "start" /\ WorkerStep(i, worker_read(threads[i], app))

WorkerOpen ==
    \E i \in 1..Len(threads) :
        threads[i].pc = "open" /\ WorkerStep(i, worker_open(threads[i]))

WorkerPull ==
    \E i \in 1..Len(threads) :
        threads[i].pc = "pull" /\ WorkerStep(i, worker_pull(threads[i], app))

WorkerWriteLine ==
    \E i \in 1..Len(threads) :
        threads[i].pc = "write_line" /\ WorkerStep(i, worker_write_line(threads[i]))

WorkerWriteNewline ==
    \E i \in 1..Len(threads) :
        threads[i].pc = "write_newline" /\ WorkerStep(i, worker_write_newline(threads[i]))

\* the table cannot be read, the output cannot be opened, the row source or
\* a write raises
WorkerRaise ==
    \E i \in 1..Len(threads) :
        /\ threads[i].pc \in {"start", "open", "pull", "write_line", "write_newline"}
        /\ WorkerStep(i, worker_raise(threads[i]))

WorkerLeaveExcept ==
    \E i \in 1..Len(threads) :
        threads[i].pc = "except_exit" /\ WorkerStep(i, worker_leave_except(threads[i]))

\* the event loop runs the oldest callback.  The error callback is
\* lambda: self.on_conversion_error(exc) (line 413): run after the thread has
\* left its except block it finds exc unbound, raises NameError, and Tk
\* reports the exception without running the handler.
RunAfter ==
    /\ after_queue # <<>>
    /\ LET cb == Head(after_queue)
           i == CHOOSE j \in 1..Len(threads) : threads[j].id = cb.id
       IN IF cb.kind \in {"progress", "final_status"}
          THEN /\ app' = [app EXCEPT !.status_var = Status("Converting rows", cb.p, cb.t)]
               /\ UNCHANGED threads
          ELSE IF cb.kind = "success"
          THEN /\ app' = on_conversion_success(app)
               /\ threads' = collect([threads EXCEPT ![i].handled = TRUE], Tail(after_queue))
          ELSE IF threads[i].exc_bound
          THEN /\ app' = on_conversion_error(app)
               /\ threads' = collect([threads EXCEPT ![i].handled = TRUE], Tail(after_queue))
          ELSE UNCHANGED <<app, threads>>
    /\ after_queue' = Tail(after_queue)
    /\ UNCHANGED <<edits, passes, fieldVars, genVars, numVars>>

\* the application variables when another specification runs
AppParked ==
    /\ app = <<>>
    /\ threads = <<>>
    /\ after_queue = <<>>
    /\ edits = 0
    /\ passes = 0

(***************************************************************************)
(* format_number on its own: the value and the precision are drawn, the    *)
(* one step is the call.                                                   *)
(***************************************************************************)
NumberDigits == {<<0>>, <<1>>, <<1, 5>>, <<2, 0, 4>>, <<9, 9, 6>>, <<1, 2, 3, 4, 5>>}

\* ints and floats; an int has no negative power of ten, zero is written
\* in one way
NumberValues ==
    {num \in {NumberCell(neg, digits, exp, is_float).num :
                 neg \in BOOLEAN, digits \in NumberDigits,
                 exp \in (-MaxExponent)..MaxExponent, is_float \in BOOLEAN} :
        /\ num.is_float \/ num.exp >= 0
        /\ IsZeroNumber(num) => (~num.neg /\ num.exp = 0)}

\* self.significant_figures.get(column): no precision, or one that
\* apply_sig_fig accepts
NumberPrecisions == {None, <<1>>, <<2>>, <<3>>, <<4>>}

\* the decimal digits lie exactly halfway between two roundings to P digits
IsDecimalTie(num, P) ==
    Len(num.digits) > P /\ HalfCompare(SubSeq(num.digits, P + 1, Len(num.digits))) = 0

\* float(value) is the nearest double.  A decimal tie below the tenths is
\* held by no double, and its rounding follows the double's binary digits;
\* such pairs of value and precision are not drawn.
NumberInit ==
    /\ n_value \in NumberValues
    /\ n_sig_figs \in NumberPrecisions
    /\ n_sig_figs # None => ~(IsDecimalTie(n_value, n_sig_figs[1]) /\ n_value.exp < -1)
    /\ n_pc = "input"
    /\ n_out = <<>>

\* line 461: format_number(value, self.significant_figures.get(column))
FormatNumber ==
    /\ n_pc = "input"
    /\ n_out' = format_number(n_value, n_sig_figs)
    /\ n_pc' = "done"
    /\ UNCHANGED <<n_value, n_sig_figs>>

\* the number variables when another specification runs
NumberParked ==
    /\ n_value = <<>>
    /\ n_sig_figs = <<>>
    /\ n_pc = "parked"
    /\ n_out = <<>>

vars == <<fieldVars, genVars, appVars, numVars>>

NumberNext == FormatNumber /\ UNCHANGED <<fieldVars, genVars, appVars>>

NumberSpecInit == NumberInit /\ FieldParked /\ GenParked /\ AppParked

SpecNumber == NumberSpecInit /\ [][NumberNext]_vars

FieldNext == QuoteField /\ UNCHANGED <<genVars, appVars, numVars>>

FieldSpecInit == FieldInit /\ GenParked /\ AppParked /\ NumberParked

SpecField == FieldSpecInit /\ [][FieldNext]_vars

GenNext == GenPull /\ UNCHANGED <<fieldVars, appVars, numVars>>

GenSpecInit == GenInit /\ FieldParked /\ AppParked /\ NumberParked

SpecGen == GenSpecInit /\ [][GenNext]_vars

Init == AppInit /\ FieldParked /\ GenParked /\ NumberParked

Next ==
    \/ ChangeSeparator
    \/ TypeCustomSeparator
    \/ ChangeQuotingMode
    \/ ChangeQuote
    \/ TypeCustomQuote
    \/ ChangeLineEnding
    \/ SelectSheet
    \/ BrowseFile
    \/ ApplySigFig
    \/ ClearSigFig
    \/ SelectColumn
    \/ RefreshPreview
    \/ SaveCsv
    \/ WorkerRead
    \/ WorkerOpen
    \/ WorkerPull
    \/ WorkerWriteLine
    \/ WorkerWriteNewline
    \/ WorkerRaise
    \/ WorkerLeaveExcept
    \/ RunAfter

Spec == Init /\ [][Next]_vars

(***************************************************************************)
(* One conversion of a long sheet, the user leaving the form alone: the    *)
(* thread has read the sheet (lines 394-405) and goes on from there.       *)
(***************************************************************************)
\* the sheet has no row, one row, or enough rows for a progress report
\* inside the loop
PassRowCounts == {0, 1, PROGRESS_INTERVAL, PROGRESS_INTERVAL + 1}

PassTables == {DataFrame(GenColumns, GenBase, n) : n \in PassRowCounts}

\* the application after save_csv has started the thread
PassApp == start_conversion(InitialApp(AppConfig(TRUE, ",", <<>>, "text", "\"", <<>>, SigFigMap({}, 0))))

\* the thread after lines 394-405 over the sheet df
PassThread(df) ==
    [NewThread(1, PassApp) EXCEPT !.pc = "open", !.df = df, !.total_rows = DfLen(df),
                                  !.newline = Newline(PassApp.line_ending_var),
                                  !.gen = iter_csv_lines(df, None, TRUE)]

PassInit ==
    /\ app = PassApp
    /\ \E df \in PassTables : threads = <<PassThread(df)>>
    /\ after_queue = <<>>
    /\ edits = 0
    /\ passes = 1

PassSpecInit == PassInit /\ FieldParked /\ GenParked /\ NumberParked

PassNext ==
    \/ WorkerOpen
    \/ WorkerPull
    \/ WorkerWriteLine
    \/ WorkerWriteNewline
    \/ WorkerRaise
    \/ WorkerLeaveExcept
    \/ RunAfter

SpecPass == PassSpecInit /\ [][PassNext]_vars

(***************************************************************************)
(* Claims about the application.                                           *)
(***************************************************************************)
Threads == {threads[i] : i \in 1..Len(threads)}

\* the thread is inside the try block of perform_conversion
ActivePass(t) == t.pc \in {"start", "open", "pull", "write_line", "write_newline"}

\* C1: every line of a pass is formatted with the separator, quote
\* character, quoting mode and precision map in force when save_csv started
\* the pass.
C1_SnapshotIsolation ==
    \A t \in Threads :
        \A k \in 1..Len(t.yielded) :
            t.yielded[k] = ExpectedLine(t.df, k, t.snapshot.settings,
                                        t.snapshot.significant_figures)

\* C2: a failed pass is reported: once the thread has ended and no callback
\* of it waits, the status is "Conversion failed" and Save is enabled again.
C2_FailureReported ==
    \A t \in Threads :
        (t.failed /\ t.pc = "dead" /\ ~HasPending(after_queue, t.id))
            => (app.status_var.label = "Conversion failed" /\ app.save_button = "normal")

\* C3: at most one conversion pass runs at any time, and from the start of a
\* thread until its success or error handler has run the Save button is
\* disabled.
C3_OnePassAtATime ==
    /\ Cardinality({i \in 1..Len(threads) : ActivePass(threads[i])}) <= 1
    /\ \A t \in Threads : ~t.handled => app.save_button = "disabled"

\* the second conversion runs, with Save disabled
C3_Witness ==
    /\ passes = 2
    /\ \E t \in Threads : t.id = 2 /\ t.pc = "write_line"
    /\ app.save_button = "disabled"

\* C4: no line is emitted by a pass whose resolved separator is empty, whose
\* quote character is missing while the mode needs one, or whose quote
\* character is longer than one character.
C4_ConfigErrorsFailFast ==
    \A t \in Threads :
        t.yielded # <<>> =>
            validate_settings(t.resolved.separator, t.resolved.quoting_mode,
                              t.resolved.quote_char) = "ok"

\* lines, each followed by the terminator
Framed(lines, terminator) ==
    [i \in 1..(2 * Len(lines)) |-> IF i % 2 = 1 THEN lines[(i + 1) \div 2] ELSE terminator]

\* C9 as stated: at every point of a pass the sink holds the first k lines
\* yielded, each followed by exactly one terminator.
C9_SinkFramingAtEveryPoint ==
    \A t \in Threads :
        \E k \in 0..Len(t.yielded) :
            t.output = Framed(SubSeq(t.yielded, 1, k), t.newline)

\* C9 amended: the sink holds the first k lines yielded, each followed by
\* exactly one terminator, and after them at most the next line, whose
\* terminator is not written yet (or, when that write failed, never); after a
\* successful pass it holds all rowCount + 1 lines with their terminators;
\* nothing written is removed, also not by a failure.
C9_SinkFraming ==
    \A t \in Threads :
        /\ \E k \in 0..Len(t.yielded) :
               \/ t.output = Framed(SubSeq(t.yielded, 1, k), t.newline)
               \/ /\ k < Len(t.yielded)
                  /\ t.output = Framed(SubSeq(t.yielded, 1, k), t.newline) \o <<t.yielded[k + 1]>>
        /\ (t.pc = "dead" /\ ~t.failed) =>
               /\ t.output = Framed(t.yielded, t.newline)
               /\ Len(t.yielded) = DfLen(t.df) + 1
        /\ Len(t.output) = t.writes

\* a pass failed at the terminator of its second line: the first line, its
\* terminator and the second line are in the sink
C9_Witness ==
    \E t \in Threads :
        /\ t.failed
        /\ Len(t.output) = 3
        /\ t.output[2] = t.newline
        /\ t.output[3] = t.yielded[2]

\* C10: every precision the serializer reads from the map is a positive
\* integer.
C10_PrecisionPositive ==
    \A t \in Threads :
        t.gen.pc = "row" =>
            \A c \in DOMAIN app.significant_figures :
                InSeq(t.df.columns, c) => app.significant_figures[c] > 0

\* C11: whenever a pass serializes a table, every key of the precision map
\* is a column name of that table.
C11_StalePrecisionPruned ==
    \A t \in Threads :
        t.gen.pc \in {"header", "row"} =>
            \A c \in DOMAIN app.significant_figures : InSeq(t.df.columns, c)

Min(a, b) == IF a <= b THEN a ELSE b

\* C12: a pass with limit = N pulls at most N rows from the row source and
\* yields at most N + 1 lines; when it ends it has pulled min(N, rowCount)
\* rows and yielded the header and those rows, for every table size.
C12_BoundedPreview ==
    g_gen.limit # None =>
        LET N == g_gen.limit[1]
            rows == Min(N, DfLen(g_gen.df))
        IN /\ g_gen.idx <= N
           /\ g_count <= N + 1
           /\ g_count >= 1 => g_last = ExpectedLine(g_gen.df, g_count, g_settings, g_sig_figs)
           /\ g_gen.pc = "finished" => (g_gen.idx = rows /\ g_count = rows + 1)

\* a preview of a table of 2021 rows ended after the header and 20 rows
C12_Witness ==
    /\ g_gen.pc = "finished"
    /\ g_gen.limit = <<PREVIEW_ROW_LIMIT>>
    /\ DfLen(g_gen.df) = 2021
    /\ g_gen.idx = PREVIEW_ROW_LIMIT
    /\ g_count = PREVIEW_ROW_LIMIT + 1

\* a step of a conversion thread: the threads change, no thread is started
\* and no callback leaves the queue
WorkerActed ==
    /\ threads' # threads
    /\ passes' = passes
    /\ Len(after_queue') >= Len(after_queue)

\* the event loop runs the oldest callback
CallbackRan == after_queue # <<>> /\ after_queue' = Tail(after_queue)

\* the status texts of lines 403, 410, 416 and 421
HandoffLabels == {"Converting rows", "Saved", "Conversion failed"}

\* C13: no step of a conversion thread changes the foreground state; the
\* progress, success and failure status texts are set, and the Save button is
\* enabled again, only by the event loop running a callback handed to it.
C13_ForegroundOnlyByHandoff ==
    [][/\ WorkerActed => app' = app
       /\ (app'.status_var # app.status_var /\ app'.status_var.label \in HandoffLabels)
              => CallbackRan
       /\ (app.save_button = "disabled" /\ app'.save_button = "normal") => CallbackRan]_vars

\* the thread has written lines and handed over a progress update that the
\* event loop has not run yet: the status is still the one save_csv set
C13_Witness ==
    /\ after_queue # <<>>
    /\ Head(after_queue).kind = "progress"
    /\ app.status_var = Status("Converting", 0, 0)
    /\ \E t \in Threads : t.id = Head(after_queue).id /\ t.writes > 0

\* what convert_value gives for a missing cell of column A, whether or not
\* the column has a precision
MissingField == convert_value(MissingCell, ColA, SigFigMap({}, 0))

\* C14: a Missing cell formats to the empty text, not text-like, with or
\* without a precision for its column; under QuoteText and None the field is
\* not quoted and is emitted as no characters, so that two such fields in a
\* row are the separator alone.
C14_MissingIsEmptyUnquoted ==
    /\ MissingField = [text |-> <<>>, is_text |-> FALSE]
    /\ convert_value(MissingCell, ColA, SigFigMap({ColA}, 2)) = MissingField
    /\ (f_pc = "done" /\ f_cell = MissingField /\ f_mode \in {"text", "none"}) =>
           /\ ~f_needs
           /\ f_out = <<>>
           /\ format_cells(<<MissingField, MissingField>>, f_mode,
                           EffectiveSeparator(f_separator), EffectiveQuote(f_quote))
                  = EffectiveSeparator(f_separator)

\* the field of a missing cell went out unquoted under QuoteText with a
\* separator of two characters
C14_Witness ==
    /\ f_pc = "done"
    /\ f_cell = MissingField
    /\ f_mode = "text"
    /\ f_separator = <<",", ",">>
    /\ f_quote = <<"'">>
    /\ f_out = <<>>

(***************************************************************************)
(* Claims about format_number.                                             *)
(***************************************************************************)
\* where the exponent of a rendered number starts: the place of "e", or one
\* past the end
ExponentStart(text) ==
    IF \E i \in 1..Len(text) : text[i] = "e"
    THEN CHOOSE i \in 1..Len(text) : text[i] = "e"
    ELSE Len(text) + 1

\* the rendered number without the trailing zeros of its fraction and
\* without a then-bare decimal point; integer part and exponent are kept
StripFraction(rendered) ==
    LET e == ExponentStart(rendered)
        mantissa == SubSeq(rendered, 1, e - 1)
        exponent == SubSeq(rendered, e, Len(rendered))
    IN (IF Contains(mantissa, <<".">>)
        THEN RStrip(RStrip(mantissa, "0"), ".")
        ELSE mantissa) \o exponent

\* C15: with a precision p, format_number returns the value rendered to p
\* significant digits less only the trailing zeros of the fraction and a
\* then-bare decimal point; no digit of the integer part or of the exponent
\* is removed.
C15_StripsOnlyFractionZeros ==
    (n_pc = "done" /\ n_sig_figs # None) =>
        n_out = StripFraction(FormatG(n_value, n_sig_figs[1]))

(***************************************************************************)
(* Claims about the header line.                                           *)
(***************************************************************************)
\* a column name as the header shows it: quoted, with the quote character
\* doubled, under QuoteText and QuoteAll and whenever it holds the separator,
\* a line break or the quote character; as it is otherwise
HeaderField(name, quoting_mode, separator, quote_char) ==
    IF quoting_mode \in {"text", "all"} \/ StructurallyNecessary(name, separator, quote_char)
    THEN quote_char \o DoubleEach(name, quote_char[1]) \o quote_char
    ELSE name

HeaderLine(df, settings) ==
    LET separator == get_separator(settings.separator_var, settings.custom_separator_var)
        quote_char == EffectiveQuote(
                          get_quote_char(settings.quote_choice_var, settings.custom_quote_var))
    IN Join([i \in 1..Len(df.columns) |->
                HeaderField(df.columns[i], settings.quoting_mode_var, separator, quote_char)],
            separator)

\* C16: the first line of every pass, preview or full, is the header: the
\* column names in column order, each quoted and escaped under QuoteText and
\* QuoteAll, and under None exactly when it holds the separator, a line break
\* or the quote character; rows come only after it.
C16_HeaderFirst ==
    /\ g_count = 1 => g_last = HeaderLine(g_gen.df, g_settings)
    /\ g_gen.pc = "header" => g_count = 1
    /\ g_gen.pc = "created" => g_count = 0
    /\ g_gen.pc \in {"header", "row"} => g_count = g_gen.idx + 1
    /\ g_gen.pc = "finished" => g_count >= 1

\* a preview of a table without rows under None: the header is its only
\* line, with the name holding a line break quoted and the plain name not
C16_Witness ==
    /\ g_gen.pc = "header"
    /\ g_gen.limit = <<PREVIEW_ROW_LIMIT>>
    /\ DfLen(g_gen.df) = 0
    /\ g_settings.quoting_mode_var = "none"
    /\ g_count = 1
    /\ g_last = <<"\"", "c", LF, "\"", ",", "B">>

(***************************************************************************)
(* Claims about the progress of a conversion.                              *)
(***************************************************************************)
\* the callbacks handed to the event loop in this step
PostedNow ==
    IF Len(after_queue') > Len(after_queue)
    THEN SubSeq(after_queue', Len(after_queue) + 1, Len(after_queue'))
    ELSE <<>>

ThreadOf(id) == CHOOSE t \in Threads : t.id = id

\* the lines in the sink that have their terminator: line and terminator
\* are written in turn
TerminatedLines(t) == Len(t.output) \div 2

\* the header and n data lines are in the sink with their terminators
ProgressBacked(cb, t) == TerminatedLines(t) >= cb.p + 1

\* every line of the table is in the sink with its terminator
AllWritten(t) ==
    /\ Len(t.yielded) = t.total_rows + 1
    /\ Len(t.output) = 2 * (t.total_rows + 1)
    /\ t.output[Len(t.output)] = t.newline

\* no callback of a pass waits behind the success notification of that pass
SuccessLast(queue) ==
    \A i \in 1..Len(queue) :
        queue[i].kind = "success" =>
            \A j \in (i + 1)..Len(queue) : queue[j].id # queue[i].id

\* C17 as stated: whenever the progress callback is invoked with (n, total),
\* the header and at least n data lines have been written with their
\* terminators; the final status and the success notification come after
\* every line has been written, the success notification after all progress
\* updates of the pass.
C17_ProgressBackedAtEveryCall ==
    [][/\ \A i \in 1..Len(PostedNow) :
              LET cb == PostedNow[i]
                  t == ThreadOf(cb.id)
              IN /\ cb.kind = "progress" => ProgressBacked(cb, t)
                 /\ cb.kind \in {"final_status", "success"} => AllWritten(t)
       /\ SuccessLast(after_queue')]_vars

\* C17 amended: the first call, (0, total), is made before anything is
\* written; at every later call with (n, total) the header and at least n
\* data lines have been written with their terminators; the final status and
\* the success notification come after every line has been written, the
\* success notification after all progress updates of the pass.
C17_ProgressNeverOverstates ==
    [][/\ \A i \in 1..Len(PostedNow) :
              LET cb == PostedNow[i]
                  t == ThreadOf(cb.id)
              IN /\ cb.kind = "progress" =>
                        \/ t.gen.pc = "created" /\ i = 1 /\ cb.p = 0 /\ t.output = <<>>
                        \/ ProgressBacked(cb, t)
                 /\ cb.kind \in {"final_status", "success"} => AllWritten(t)
       /\ SuccessLast(after_queue')]_vars

\* the report of row 1000 of 1001 waits for the event loop; the header and
\* the first 1000 rows are in the sink
C17_Witness ==
    /\ \E i \in 1..Len(after_queue) :
           /\ after_queue[i].kind = "progress"
           /\ after_queue[i].p = PROGRESS_INTERVAL
           /\ after_queue[i].t = PROGRESS_INTERVAL + 1
    /\ \E t \in Threads :
           /\ t.total_rows = PROGRESS_INTERVAL + 1
           /\ t.pc = "write_line"
           /\ Len(t.output) = 2 * (PROGRESS_INTERVAL + 1)

=============================================================================
